---- MODULE Spec2Model ----
(***************************************************************************)
(* The scanner of espritc: class Tokenizer of src/src/Tokenizer.ts.  A     *)
(* source text is a sequence of one-character strings.  One call of        *)
(* scanTokens is a run of steps: one step per iteration of the scan loop   *)
(* and of each inner loop, so that the exits of the loops are reached (or  *)
(* not) by the model as by the code.  Indices are the code's, 0-based.     *)
(***************************************************************************)
EXTENDS Integers, Sequences, FiniteSets, TLC

VARIABLES
    source,       \* Tokenizer.source (readonly)
    tokens,       \* Tokenizer.tokens: the array scanTokens fills and returns
    start,        \* Tokenizer.start
    current,      \* Tokenizer.current
    line,         \* Tokenizer.line
    pc,           \* where control is inside scanTokens
    diagnostics,  \* what console.error has been given, in order
    calls,        \* how many times scanTokens has been called
    results,      \* the content of the returned array when each call returned
    spans         \* history: one record per finished scanToken call

vars == <<source, tokens, start, current, line, pc, diagnostics, calls,
          results, spans>>

---------------------------------------------------------------------------
(* Bounds of the model. *)

\* the longest source drawn from Alphabet
MaxLen == 3

\* how many times scanTokens is called on one Tokenizer
MaxCalls == 2

---------------------------------------------------------------------------
(* Source texts. *)

Alphabet == {"0", "1", "2", "b", "e", ".", "-", "=", " ", "\n", "\""}

RECURSIVE StringsUpTo(_)
StringsUpTo(n) ==
    IF n = 0 THEN {<<>>}
    ELSE LET shorter == StringsUpTo(n - 1)
         IN  shorter \cup {Append(s, c) : s \in shorter, c \in Alphabet}

\* the inputs the specification's examples name
Samples ==
    { <<"0", "x", "1", "A">>,
      <<"0", "b", "1", "0", "1">>,
      <<"-", "-", " ", "c", "o", "m", "m", "e", "n", "t", "\n", "1">>,
      <<"1", ".", "5", "e", "-", "3">>,
      <<"1", " ", "+", " ", "2">>,
      <<"\"", "a", "b", "c">>,
      <<"\"", "a", "\n", "b", "\"", "\n", "1">>,
      <<"!", "=", "<", ">", "=", "!", "<", "=", ">">>,
      <<"2", "E", "1", "\t", "7", "e", "\r">> }

Sources == StringsUpTo(MaxLen) \cup Samples

---------------------------------------------------------------------------
(* Strings: String.prototype.charAt, slice, toLowerCase, and Number(). *)

Min(a, b) == IF a < b THEN a ELSE b

\* source.charAt(i): "" outside the string
charAt(i) == IF i >= 0 /\ i < Len(source) THEN source[i + 1] ELSE ""

\* source.slice(from, to) for from, to >= 0
slice(from, to) == SubSeq(source, from + 1, Min(to, Len(source)))

toLowerCase(c) ==
    CASE c = "A" -> "a" [] c = "B" -> "b" [] c = "C" -> "c" [] c = "D" -> "d"
      [] c = "E" -> "e" [] c = "F" -> "f" [] c = "O" -> "o" [] c = "X" -> "x"
      [] OTHER -> c

DecimalDigits == {"0", "1", "2", "3", "4", "5", "6", "7", "8", "9"}

DigitValue(c) ==
    CASE c = "0" -> 0 [] c = "1" -> 1 [] c = "2" -> 2 [] c = "3" -> 3
      [] c = "4" -> 4 [] c = "5" -> 5 [] c = "6" -> 6 [] c = "7" -> 7
      [] c = "8" -> 8 [] c = "9" -> 9
      [] toLowerCase(c) = "a" -> 10 [] toLowerCase(c) = "b" -> 11
      [] toLowerCase(c) = "c" -> 12 [] toLowerCase(c) = "d" -> 13
      [] toLowerCase(c) = "e" -> 14 [] toLowerCase(c) = "f" -> 15
      [] OTHER -> 99

\* the digits s read in the given radix, most significant first
RECURSIVE RadixValue(_, _)
RadixValue(s, radix) ==
    IF s = <<>> THEN 0
    ELSE RadixValue(SubSeq(s, 1, Len(s) - 1), radix) * radix
         + DigitValue(s[Len(s)])

AllDigits(s, radix) == \A i \in 1..Len(s) : DigitValue(s[i]) < radix

\* the first index of s holding a character of cs, Len(s) + 1 if none
IndexOf(s, cs) ==
    IF \E i \in 1..Len(s) : s[i] \in cs
    THEN CHOOSE i \in 1..Len(s) :
             s[i] \in cs /\ \A j \in 1..(i - 1) : s[j] \notin cs
    ELSE Len(s) + 1

\* A number value is mant * 10^exp, with mant not a multiple of 10 (zero is
\* 0 * 10^0), so that equal values are equal records; NaN is apart.  The
\* rounding and the range of a double are not modelled.
NaN == [nan |-> TRUE]

RECURSIVE Normal(_, _)
Normal(mant, exp) ==
    IF mant = 0 THEN [mant |-> 0, exp |-> 0]
    ELSE IF mant % 10 = 0 THEN Normal(mant \div 10, exp + 1)
    ELSE [mant |-> mant, exp |-> exp]

Integer(n) == Normal(n, 0)

\* Number(lexeme) for an unsigned literal without surrounding white space
Number(lexeme) ==
    LET prefix == IF Len(lexeme) >= 2 /\ lexeme[1] = "0"
                  THEN toLowerCase(lexeme[2]) ELSE ""
        radix  == CASE prefix = "b" -> 2 [] prefix = "o" -> 8
                    [] prefix = "x" -> 16 [] OTHER -> 10
        body   == SubSeq(lexeme, 3, Len(lexeme))
        ePos   == IndexOf(lexeme, {"e", "E"})
        mantissa == SubSeq(lexeme, 1, ePos - 1)
        expText  == SubSeq(lexeme, ePos + 1, Len(lexeme))
        negative == expText # <<>> /\ expText[1] = "-"
        signed   == expText # <<>> /\ expText[1] \in {"-", "+"}
        expDigits == IF signed THEN Tail(expText) ELSE expText
        dotPos == IndexOf(mantissa, {"."})
        whole  == SubSeq(mantissa, 1, dotPos - 1)
        fraction == SubSeq(mantissa, dotPos + 1, Len(mantissa))
        expValue == IF ePos > Len(lexeme) THEN 0
                    ELSE IF negative THEN 0 - RadixValue(expDigits, 10)
                    ELSE RadixValue(expDigits, 10)
    IN  IF lexeme = <<>> THEN Integer(0)
        ELSE IF radix # 10
        THEN IF body # <<>> /\ AllDigits(body, radix)
             THEN Integer(RadixValue(body, radix)) ELSE NaN
        ELSE IF /\ AllDigits(whole, 10) /\ AllDigits(fraction, 10)
                /\ Len(whole) + Len(fraction) >= 1
                /\ ePos <= Len(lexeme) =>
                       expDigits # <<>> /\ AllDigits(expDigits, 10)
        THEN Normal(RadixValue(whole \o fraction, 10),
                    expValue - Len(fraction))
        ELSE NaN

---------------------------------------------------------------------------
(* The private helpers of Tokenizer.  The cursor they read is a parameter, *)
(* cur, because scanToken reads it after having moved it.                  *)

\* mutant: the end is seen one character late
reachedEOFLate(cur) == cur > Len(source)

reachedEOF(cur) == cur > Len(source) - 1

\* mutant: the cursor is read but not moved
advanceStuck(cur, advanceBy) == cur

\* advance(advanceBy): the cursor after it; it returns charAt(cursor - 1)
advance(cur, advanceBy) == cur + advanceBy

peek(cur) == IF reachedEOF(cur) THEN "" ELSE charAt(cur)

\* mutant: the character at the cursor is looked at, not the one after it
peekNextAtCursor(cur, peekBy) == peek(cur)

peekNext(cur, peekBy) ==
    IF cur + 1 >= Len(source) THEN "" ELSE charAt(cur + peekBy)

\* mutant: the character is not compared with the expected one
matchAnything(cur, expected) == ~reachedEOF(cur)

\* match(expected): what it returns, and the cursor after it
match(cur, expected) ==
    IF reachedEOF(cur) THEN FALSE ELSE charAt(cur) = expected

\* mutant: the matched character is not consumed
afterMatchUnmoved(cur, expected) == cur

afterMatch(cur, expected) == IF match(cur, expected) THEN cur + 1 ELSE cur

isDigit(character) == character \in DecimalDigits

isBinaryDigit(character) == character = "0" \/ character = "1"

\* mutant: the lexeme stops one character early
addTokenShort(tokenMetadata, st, cur, ln) ==
    Append(tokens,
           tokenMetadata @@ [lexeme |-> slice(st, cur - 1), line |-> ln])

\* addToken(tokenMetadata): the array after the push
addToken(tokenMetadata, st, cur, ln) ==
    Append(tokens, tokenMetadata @@ [lexeme |-> slice(st, cur), line |-> ln])

---------------------------------------------------------------------------
(* The token kinds of the switch in scanToken. *)

SingleCharacters == {"(", ")", "{", "}", ",", ".", "+", ";", "*", "/"}

singleType(character) ==
    CASE character = "(" -> "leftParen"  [] character = ")" -> "rightParen"
      [] character = "{" -> "leftBrace"  [] character = "}" -> "rightBrace"
      [] character = "," -> "comma"      [] character = "." -> "dot"
      [] character = "+" -> "plus"       [] character = ";" -> "semicolon"
      [] character = "*" -> "star"       [] character = "/" -> "slash"

OperatorCharacters == {"!", "=", "<", ">"}

operatorType(character, matched) ==
    CASE character = "!" -> IF matched THEN "bangEqual" ELSE "bang"
      [] character = "=" -> IF matched THEN "equalEqual" ELSE "equal"
      [] character = "<" -> IF matched THEN "lessEqual" ELSE "less"
      [] character = ">" -> IF matched THEN "greaterEqual" ELSE "greater"

BlankCharacters == {" ", "\r", "\t"}

NonZeroDigits == DecimalDigits \ {"0"}

\* the characters that have a case of their own in the switch
CaseCharacters ==
    SingleCharacters \cup OperatorCharacters \cup BlankCharacters
    \cup DecimalDigits \cup {"-", "\n", "\""}

---------------------------------------------------------------------------
(* The state after construction, and the steps of scanTokens. *)

\* private line = 0
InitialLine == 0

Init ==
    /\ source \in Sources
    /\ tokens = <<>>
    /\ start = 0
    /\ current = 0
    /\ line = InitialLine
    /\ pc = "idle"
    /\ diagnostics = <<>>
    /\ calls = 0
    /\ results = <<>>
    /\ spans = <<>>

\* One step of the scan: the fields after it and where control goes.  A step
\* that goes back to the scan loop ends a scanToken call, and the history
\* records what the call consumed, source[st..cur), and how it ended.
Step(st, cur, ln, toks, diags, nextpc, kind) ==
    /\ start' = st
    /\ current' = cur
    /\ line' = ln
    /\ tokens' = toks
    /\ diagnostics' = diags
    /\ pc' = nextpc
    /\ spans' = IF nextpc = "loop"
                THEN Append(spans, [kind |-> kind, from |-> st, to |-> cur,
                                    line |-> ln, tokens |-> Len(toks),
                                    diagnostics |-> Len(diags)])
                ELSE spans
    /\ UNCHANGED <<source, calls, results>>

\* a caller calls scanTokens: the first time, or again on the same instance
scanTokens ==
    /\ pc \in {"idle", "returned"}
    /\ calls < MaxCalls
    /\ pc' = "loop"
    /\ calls' = calls + 1
    /\ UNCHANGED <<source, tokens, start, current, line, diagnostics,
                   results, spans>>

\* mutant: eof is pushed through addToken, as every other token is
scanTokensReturnByAddToken ==
    /\ pc = "loop"
    /\ reachedEOF(current)
    /\ tokens' = addToken([type |-> "eof"], start, current, line)
    /\ results' = Append(results, tokens')
    /\ pc' = "returned"
    /\ UNCHANGED <<source, start, current, line, diagnostics, calls, spans>>

\* the scan loop is left: eof is pushed and the array itself is returned
scanTokensReturn ==
    /\ pc = "loop"
    /\ reachedEOF(current)
    /\ tokens' = Append(tokens,
                        [type |-> "eof", lexeme |-> <<>>, line |-> line])
    /\ results' = Append(results, tokens')
    /\ pc' = "returned"
    /\ UNCHANGED <<source, start, current, line, diagnostics, calls, spans>>

\* the loop's body is entered: start = current, then scanToken advances
inLoop == pc = "loop" /\ ~reachedEOF(current)

\* const character = this.advance()
scanned == charAt(advance(current, 1) - 1)

scanSingle ==
    /\ inLoop
    /\ scanned \in SingleCharacters
    /\ LET cur == advance(current, 1)
       IN  Step(current, cur, line,
                addToken([type |-> singleType(scanned)], current, cur, line),
                diagnostics, "loop", "token")

scanMinus ==
    /\ inLoop
    /\ scanned = "-"
    /\ LET cur == advance(current, 1)
       IN  IF match(cur, "-")
           THEN Step(current, afterMatch(cur, "-"), line, tokens,
                     diagnostics, "comment", "")
           ELSE Step(current, cur, line,
                     addToken([type |-> "minus"], current, cur, line),
                     diagnostics, "loop", "token")

\* mutant: the comment does not stop at the line terminator
commentAdvanceThroughLine ==
    /\ pc = "comment"
    /\ ~reachedEOF(current)
    /\ Step(start, advance(current, 1), line, tokens, diagnostics,
            "comment", "")

\* while (this.peek() !== "\n" && !this.reachedEOF()) this.advance()
commentAdvance ==
    /\ pc = "comment"
    /\ peek(current) # "\n" /\ ~reachedEOF(current)
    /\ Step(start, advance(current, 1), line, tokens, diagnostics,
            "comment", "")

commentEnd ==
    /\ pc = "comment"
    /\ ~(peek(current) # "\n" /\ ~reachedEOF(current))
    /\ Step(start, current, line, tokens, diagnostics, "loop", "comment")

scanOperator ==
    /\ inLoop
    /\ scanned \in OperatorCharacters
    /\ LET cur     == advance(current, 1)
           matched == match(cur, "=")
           after   == afterMatch(cur, "=")
       IN  Step(current, after, line,
                addToken([type |-> operatorType(scanned, matched)],
                         current, after, line),
                diagnostics, "loop", "token")

scanBlank ==
    /\ inLoop
    /\ scanned \in BlankCharacters
    /\ Step(current, advance(current, 1), line, tokens, diagnostics,
            "loop", "blank")

\* mutant: the line terminator is skipped like a blank, uncounted
scanNewlineUncounted ==
    /\ inLoop
    /\ scanned = "\n"
    /\ Step(current, advance(current, 1), line, tokens, diagnostics,
            "loop", "newline")

scanNewline ==
    /\ inLoop
    /\ scanned = "\n"
    /\ Step(current, advance(current, 1), line + 1, tokens, diagnostics,
            "loop", "newline")

scanZero ==
    /\ inLoop
    /\ scanned = "0"
    /\ Step(current, advance(current, 1), line, tokens, diagnostics,
            "leadingZeroNumber", "")

scanDigit ==
    /\ inLoop
    /\ scanned \in NonZeroDigits
    /\ Step(current, advance(current, 1), line, tokens, diagnostics,
            "number", "")

scanQuote ==
    /\ inLoop
    /\ scanned = "\""
    /\ Step(current, advance(current, 1), line, tokens, diagnostics,
            "string", "")

\* mutant: the character is dropped without a diagnostic
scanDefaultSilent ==
    /\ inLoop
    /\ scanned \notin CaseCharacters
    /\ Step(current, advance(current, 1), line, tokens, diagnostics,
            "loop", "error")

scanDefault ==
    /\ inLoop
    /\ scanned \notin CaseCharacters
    /\ Step(current, advance(current, 1), line, tokens,
            Append(diagnostics, <<"Unexpected character", scanned>>),
            "loop", "error")

\* number(), entered when a digit 1..9 has been consumed, or from
\* leadingZeroNumber: while (this.isDigit(this.peek())) this.advance()
numberDigit ==
    /\ pc = "number"
    /\ isDigit(peek(current))
    /\ Step(start, advance(current, 1), line, tokens, diagnostics,
            "number", "")

\* if (this.peek() === "." && this.isDigit(this.peekNext())) this.advance()
numberPoint ==
    /\ pc = "number"
    /\ ~isDigit(peek(current))
    /\ IF peek(current) = "." /\ isDigit(peekNext(current, 1))
       THEN Step(start, advance(current, 1), line, tokens, diagnostics,
                 "fraction", "")
       ELSE Step(start, current, line, tokens, diagnostics, "exponent", "")

fractionDigit ==
    /\ pc = "fraction"
    /\ isDigit(peek(current))
    /\ Step(start, advance(current, 1), line, tokens, diagnostics,
            "fraction", "")

fractionEnd ==
    /\ pc = "fraction"
    /\ ~isDigit(peek(current))
    /\ Step(start, current, line, tokens, diagnostics, "exponent", "")

\* mutant: the exponent marker is consumed without looking ahead
numberExponentEager ==
    /\ pc = "exponent"
    /\ IF toLowerCase(peek(current)) = "e"
       THEN Step(start, advance(current, 1), line, tokens, diagnostics,
                 "exponentDigits", "")
       ELSE Step(start, current, line, tokens, diagnostics, "numberToken", "")

\* if (this.peek().toLowerCase() === "e") { ... }
numberExponent ==
    /\ pc = "exponent"
    /\ IF toLowerCase(peek(current)) = "e"
       THEN IF isDigit(peekNext(current, 1))
            THEN Step(start, advance(current, 1), line, tokens, diagnostics,
                      "exponentDigits", "")
            ELSE IF peekNext(current, 1) = "-" /\ isDigit(peekNext(current, 2))
            THEN Step(start, advance(current, 2), line, tokens, diagnostics,
                      "exponentDigits", "")
            ELSE Step(start, current, line, tokens, diagnostics,
                      "numberToken", "")
       ELSE Step(start, current, line, tokens, diagnostics, "numberToken", "")

exponentDigit ==
    /\ pc = "exponentDigits"
    /\ isDigit(peek(current))
    /\ Step(start, advance(current, 1), line, tokens, diagnostics,
            "exponentDigits", "")

exponentEnd ==
    /\ pc = "exponentDigits"
    /\ ~isDigit(peek(current))
    /\ Step(start, current, line, tokens, diagnostics, "numberToken", "")

\* lexeme.toLowerCase().includes("e")
includesE(lexeme) == \E i \in 1..Len(lexeme) : toLowerCase(lexeme[i]) = "e"

\* the end of number(): the literal, its kind, and addToken
numberToken ==
    /\ pc = "numberToken"
    /\ LET lexeme == slice(start, current)
           kind   == IF includesE(lexeme) THEN "exponential" ELSE "decimal"
       IN  Step(start, current, line,
                addToken([type |-> "number", literal |-> Number(lexeme),
                          kind |-> kind], start, current, line),
                diagnostics, "loop", "token")

\* leadingZeroNumber(), entered when a "0" has been consumed
leadingZeroNumber ==
    /\ pc = "leadingZeroNumber"
    /\ IF toLowerCase(peek(current)) = "b"
       THEN IF isBinaryDigit(peekNext(current, 1))
            THEN Step(start, advance(current, 1), line, tokens, diagnostics,
                      "binaryDigits", "")
            ELSE Step(start, current, line, tokens,
                      Append(diagnostics, <<"Binary digit expected">>),
                      "binaryToken", "")
       ELSE Step(start, current, line, tokens, diagnostics, "number", "")

binaryDigit ==
    /\ pc = "binaryDigits"
    /\ isBinaryDigit(peek(current))
    /\ Step(start, advance(current, 1), line, tokens, diagnostics,
            "binaryDigits", "")

binaryEnd ==
    /\ pc = "binaryDigits"
    /\ ~isBinaryDigit(peek(current))
    /\ Step(start, current, line, tokens, diagnostics, "binaryToken", "")

\* the end of leadingZeroNumber(), reached with and without binary digits
binaryToken ==
    /\ pc = "binaryToken"
    /\ LET lexeme == slice(start, current)
       IN  Step(start, current, line,
                addToken([type |-> "number", literal |-> Number(lexeme),
                          kind |-> "binary"], start, current, line),
                diagnostics, "loop", "token")

\* mutant: the line terminators of the body are not counted
stringCharacterUncounted ==
    /\ pc = "string"
    /\ peek(current) # "\"" /\ ~reachedEOF(current)
    /\ Step(start, advance(current, 1), line, tokens, diagnostics,
            "string", "")

\* string(), entered when the opening quote has been consumed:
\* while (this.peek() !== '"' && !this.reachedEOF()) { ... }
stringCharacter ==
    /\ pc = "string"
    /\ peek(current) # "\"" /\ ~reachedEOF(current)
    /\ Step(start, advance(current, 1),
            IF peek(current) = "\n" THEN line + 1 ELSE line,
            tokens, diagnostics, "string", "")

\* mutant: the literal is cut like the lexeme, quotes included
stringEndWithQuotes ==
    /\ pc = "string"
    /\ ~(peek(current) # "\"" /\ ~reachedEOF(current))
    /\ IF reachedEOF(current)
       THEN Step(start, current, line, tokens,
                 Append(diagnostics, <<"Unterminated string literal.">>),
                 "loop", "error")
       ELSE LET cur     == advance(current, 1)
                literal == slice(start, cur)
            IN  Step(start, cur, line,
                     addToken([type |-> "string", literal |-> literal],
                              start, cur, line),
                     diagnostics, "loop", "token")

stringEnd ==
    /\ pc = "string"
    /\ ~(peek(current) # "\"" /\ ~reachedEOF(current))
    /\ IF reachedEOF(current)
       THEN Step(start, current, line, tokens,
                 Append(diagnostics, <<"Unterminated string literal.">>),
                 "loop", "error")
       ELSE LET cur     == advance(current, 1)
                literal == slice(start + 1, cur - 1)
            IN  Step(start, cur, line,
                     addToken([type |-> "string", literal |-> literal],
                              start, cur, line),
                     diagnostics, "loop", "token")

Next ==
    \/ scanTokens
    \/ scanTokensReturn
    \/ scanSingle
    \/ scanMinus
    \/ commentAdvance
    \/ commentEnd
    \/ scanOperator
    \/ scanBlank
    \/ scanNewline
    \/ scanZero
    \/ scanDigit
    \/ scanQuote
    \/ scanDefault
    \/ numberDigit
    \/ numberPoint
    \/ fractionDigit
    \/ fractionEnd
    \/ numberExponent
    \/ exponentDigit
    \/ exponentEnd
    \/ numberToken
    \/ leadingZeroNumber
    \/ binaryDigit
    \/ binaryEnd
    \/ binaryToken
    \/ stringCharacter
    \/ stringEnd

Spec == Init /\ [][Next]_vars

\* the scan runs to its end once it has been called: the steps inside
\* scanTokens are synchronous code, only the call is the caller's choice
Run ==
    \/ scanTokensReturn \/ scanSingle \/ scanMinus \/ commentAdvance
    \/ commentEnd \/ scanOperator \/ scanBlank \/ scanNewline \/ scanZero
    \/ scanDigit \/ scanQuote \/ scanDefault \/ numberDigit \/ numberPoint
    \/ fractionDigit \/ fractionEnd \/ numberExponent \/ exponentDigit
    \/ exponentEnd \/ numberToken \/ leadingZeroNumber \/ binaryDigit
    \/ binaryEnd \/ binaryToken \/ stringCharacter \/ stringEnd

FairSpec == Spec /\ WF_vars(Run)

---------------------------------------------------------------------------
(* What the claims speak of. *)

\* the array the first call returned, as the caller holds it: scanTokens
\* returns this.tokens itself, not a copy
firstResult == tokens

eofToken(ln) == [type |-> "eof", lexeme |-> <<>>, line |-> ln]

EofCount(toks) == Cardinality({k \in 1..Len(toks) : toks[k].type = "eof"})

\* the line terminators among source[0..i)
NewlinesBefore(i) ==
    Cardinality({j \in 0..(Min(i, Len(source)) - 1) : charAt(j) = "\n"})

\* the counts of tokens and diagnostics when the i-th scanToken call began
TokensBefore(i) == IF i = 1 THEN 0 ELSE spans[i - 1].tokens
DiagnosticsBefore(i) == IF i = 1 THEN 0 ELSE spans[i - 1].diagnostics
LineBefore(i) == IF i = 1 THEN InitialLine ELSE spans[i - 1].line

\* the scanToken calls that emitted a token; the token of such a call
TokenSpans == {i \in 1..Len(spans) : spans[i].kind = "token"}
TokenOf(i) == tokens[spans[i].tokens]

\* the first index at or after i that holds a line terminator, or the length
RECURSIVE EndOfLine(_)
EndOfLine(i) ==
    IF i >= Len(source) \/ charAt(i) = "\n" THEN Min(i, Len(source))
    ELSE EndOfLine(i + 1)

Returned == Len(results) >= 1

---------------------------------------------------------------------------
(* The claims. *)

\* the positions of control inside the inner loops of scanToken
LoopPositions ==
    {"comment", "number", "fraction", "exponentDigits", "binaryDigits",
     "string"}

\* C1: scanTokens terminates on every source.  Every iteration of the scan
\* loop and of every inner loop (line comment, digit runs, string body)
\* moves the cursor forward, the cursor never passes the length of the
\* source, and a call that has begun returns.
C1_Terminates ==
    /\ [](current <= Len(source))
    /\ [][(\/ pc = "loop" /\ pc' # "returned"
           \/ pc \in LoopPositions /\ pc' = pc) => current' > current]_vars
    /\ (pc = "loop") ~> (pc = "returned")

\* a scan that went through a comment, a digit run and a string has returned
C1_Witness ==
    /\ pc = "returned"
    /\ calls = 1
    /\ current = Len(source)
    /\ \E i \in 1..Len(spans) : spans[i].kind = "comment"
    /\ \E i \in TokenSpans : TokenOf(i).type = "number"


\* C2: the sequence scanTokens returns holds exactly one eof token, the last
\* element, with an empty lexeme; for the empty source it is exactly [eof],
\* with the line counter's initial value.  (The result of the scan of a
\* source: the first call on a Tokenizer.  C3 is about a second call.)
C2_OneEofLast ==
    Returned =>
        LET r == results[1]
        IN  /\ Len(r) >= 1
            /\ r[Len(r)].type = "eof"
            /\ r[Len(r)].lexeme = <<>>
            /\ EofCount(r) = 1
            /\ source = <<>> => r = <<eofToken(InitialLine)>>

\* a scan that emitted tokens has returned
C2_Witness ==
    /\ pc = "returned"
    /\ calls = 1
    /\ Len(results[1]) >= 3
    /\ spans[Len(spans)].kind = "token"

\* C3: once scanTokens has returned, the returned sequence never changes: a
\* second call leaves the first result as it was and returns a sequence
\* equal to it, element by element, still with exactly one eof token.
C3_ResultNeverChanges ==
    /\ Returned => firstResult = results[1]
    /\ Len(results) >= 2 =>
           results[2] = results[1] /\ EofCount(results[2]) = 1

\* the scanToken calls consumed the source piece by piece, without a gap
SpansTile ==
    /\ Len(spans) >= 1 => spans[1].from = 0
    /\ \A i \in 1..Len(spans) :
           /\ spans[i].from < spans[i].to
           /\ spans[i].to <= Len(source)
           /\ i < Len(spans) => spans[i + 1].from = spans[i].to
    /\ IF spans = <<>> THEN Len(source) = 0
       ELSE spans[Len(spans)].to = Len(source)

\* the non-eof tokens are, in order, the slices of the calls that emitted one
TokensAreSlices(r) ==
    /\ Cardinality(TokenSpans) = Len(r) - 1
    /\ \A i \in TokenSpans :
           /\ spans[i].tokens = TokensBefore(i) + 1
           /\ r[spans[i].tokens].lexeme =
                  SubSeq(source, spans[i].from + 1, spans[i].to)

\* what a call that emitted no token consumed: white space or a comment
SkippedText(i) ==
    LET from == spans[i].from
        to   == spans[i].to
    IN  /\ spans[i].tokens = TokensBefore(i)
        /\ spans[i].diagnostics = DiagnosticsBefore(i)
        /\ \/ /\ spans[i].kind = "blank"
              /\ to = from + 1
              /\ charAt(from) \in {" ", "\r", "\t"}
           \/ /\ spans[i].kind = "newline"
              /\ to = from + 1
              /\ charAt(from) = "\n"
           \/ /\ spans[i].kind = "comment"
              /\ to >= from + 2
              /\ charAt(from) = "-" /\ charAt(from + 1) = "-"
              /\ \A j \in from..(to - 1) : charAt(j) # "\n"

\* what a call that reported an error and emitted no token consumed: one
\* character that starts no token, or an unterminated string to the end
ErrorText(i) ==
    LET from == spans[i].from
        to   == spans[i].to
    IN  /\ spans[i].kind = "error"
        /\ spans[i].tokens = TokensBefore(i)
        /\ spans[i].diagnostics = DiagnosticsBefore(i) + 1
        /\ \/ to = from + 1 /\ charAt(from) \notin CaseCharacters
           \/ /\ charAt(from) = "\""
              /\ to = Len(source)
              /\ \A j \in (from + 1)..(to - 1) : charAt(j) # "\""

\* C4 as claimed: the lexemes of the non-eof tokens are slices of the source
\* at increasing positions that do not overlap, and every character outside
\* them is skipped white space or part of a -- comment.
C4_OnlyBlanksAndCommentsSkipped ==
    Returned =>
        /\ SpansTile
        /\ TokensAreSlices(results[1])
        /\ \A i \in 1..Len(spans) : i \in TokenSpans \/ SkippedText(i)

\* C4, amended: ... and every character outside them is skipped white
\* space, part of a -- comment, or part of a text for which an error was
\* reported and no token emitted (a character that starts no token, or an
\* unterminated string from its opening quote to the end of the input).
C4_SlicesAndSkippedTextTile ==
    Returned =>
        /\ SpansTile
        /\ TokensAreSlices(results[1])
        /\ \A i \in 1..Len(spans) :
               i \in TokenSpans \/ SkippedText(i) \/ ErrorText(i)

\* a returned scan with a token, a skipped text and an error text
C4_Witness ==
    /\ pc = "returned"
    /\ TokenSpans # {}
    /\ \E i \in 1..Len(spans) : spans[i].kind = "error"
    /\ \E i \in 1..Len(spans) : spans[i].kind \in {"blank", "comment"}

\* C5: every token's line is the line of the token's first character: the
\* initial line plus the line terminators before that character; also for a
\* string token whose body spans several lines.
C5_LineOfFirstCharacter ==
    Returned =>
        LET r == results[1]
        IN  /\ \A i \in TokenSpans :
                   r[spans[i].tokens].line =
                       InitialLine + NewlinesBefore(spans[i].from)
            /\ r[Len(r)].line = InitialLine + NewlinesBefore(Len(source))


StringSpans == {i \in TokenSpans : TokenOf(i).type = "string"}

\* C6 as claimed: a string token's lexeme leaves out the two quotes: it is
\* the text strictly between them, like the token's literal.
C6_LexemeWithoutQuotes ==
    \A i \in StringSpans :
        /\ TokenOf(i).lexeme =
               SubSeq(source, spans[i].from + 2, spans[i].to - 1)
        /\ TokenOf(i).lexeme = TokenOf(i).literal

\* C6, amended: a string token's lexeme is the whole literal, both quotes
\* included; it is the token's literal that is the text strictly between
\* the opening quote and the closing quote.
C6_LexemeWithQuotes ==
    \A i \in StringSpans :
        LET from == spans[i].from
            to   == spans[i].to
        IN  /\ to >= from + 2
            /\ charAt(from) = "\"" /\ charAt(to - 1) = "\""
            /\ TokenOf(i).lexeme = SubSeq(source, from + 1, to)
            /\ TokenOf(i).literal = SubSeq(source, from + 2, to - 1)
            /\ TokenOf(i).lexeme =
                   <<"\"">> \o TokenOf(i).literal \o <<"\"">>
            /\ \A k \in 1..Len(TokenOf(i).literal) :
                   TokenOf(i).literal[k] # "\""

\* a string token with a body has been emitted
C6_Witness == \E i \in StringSpans : Len(TokenOf(i).literal) >= 1

RadixMarkers == {"b", "o", "x"}

radixOf(marker) ==
    CASE marker = "b" -> 2 [] marker = "o" -> 8 [] marker = "x" -> 16

kindOf(marker) ==
    CASE marker = "b" -> "binary" [] marker = "o" -> "octal"
      [] marker = "x" -> "hexadecimal"

\* the first index at or after i that holds no digit of the radix
RECURSIVE EndOfDigits(_, _)
EndOfDigits(i, radix) ==
    IF DigitValue(charAt(i)) < radix THEN EndOfDigits(i + 1, radix) ELSE i

NumberCount(toks) ==
    Cardinality({k \in 1..Len(toks) : toks[k].type = "number"})

\* C7: a leading 0 and a radix marker that no digit of the radix follows:
\* exactly one error is reported for the text, the text is consumed through
\* the marker, no numeric token is emitted for it, and the scan resumes at
\* the next character; for "0b2" the result holds no numeric token and ends
\* with eof.
C7_MarkerWithoutDigit ==
    /\ \A i \in 1..Len(spans) :
           LET from   == spans[i].from
               marker == toLowerCase(charAt(from + 1))
           IN  (/\ charAt(from) = "0"
                /\ marker \in RadixMarkers
                /\ DigitValue(charAt(from + 2)) >= radixOf(marker))
               => /\ spans[i].to = from + 2
                  /\ spans[i].tokens = TokensBefore(i)
                  /\ spans[i].diagnostics = DiagnosticsBefore(i) + 1
    /\ (Returned /\ source = <<"0", "b", "2">>) =>
           /\ NumberCount(results[1]) = 0
           /\ results[1][Len(results[1])].type = "eof"
           /\ Len(diagnostics) = 1

\* C8: 0, a radix marker and one or more digits of the radix, before the end
\* of the input or a non-digit: exactly one numeric token, whose lexeme is
\* the whole literal, whose tag is the marker's and whose value is the
\* literal read in the radix, and no error; "0x1A" yields one hexadecimal
\* token of value 26, then eof.
C8_RadixLiteral ==
    /\ \A i \in 1..Len(spans) :
           LET from   == spans[i].from
               marker == toLowerCase(charAt(from + 1))
               end    == EndOfDigits(from + 2, radixOf(marker))
           IN  (/\ charAt(from) = "0"
                /\ marker \in RadixMarkers
                /\ end > from + 2
                /\ ~isDigit(charAt(end)))
               => /\ spans[i].to = end
                  /\ spans[i].kind = "token"
                  /\ spans[i].tokens = TokensBefore(i) + 1
                  /\ spans[i].diagnostics = DiagnosticsBefore(i)
                  /\ TokenOf(i) =
                         [type |-> "number", kind |-> kindOf(marker),
                          literal |->
                              Integer(RadixValue(
                                  SubSeq(source, from + 3, end),
                                  radixOf(marker))),
                          lexeme |-> SubSeq(source, from + 1, end),
                          line |-> spans[i].line]
    /\ (Returned /\ source = <<"0", "x", "1", "A">>) =>
           results[1] =
               << [type |-> "number", kind |-> "hexadecimal",
                   literal |-> Integer(26),
                   lexeme |-> <<"0", "x", "1", "A">>, line |-> InitialLine],
                  eofToken(InitialLine) >>

CommentSample ==
    <<"-", "-", " ", "c", "o", "m", "m", "e", "n", "t", "\n", "1">>

\* C9 as claimed: "-- comment\n1" yields exactly [number 1, eof]: no token
\* for the comment, the line counter incremented exactly once, and the
\* numeric token's line is 2.
C9_CommentThenOneOnLineTwo ==
    (Returned /\ source = CommentSample) =>
        /\ Len(results[1]) = 2
        /\ results[1][1].type = "number"
        /\ results[1][1].literal = Integer(1)
        /\ results[1][1].line = 2
        /\ results[1][2].type = "eof"
        /\ line = InitialLine + 1

\* C9, amended: "-- comment\n1" yields exactly [number 1, eof]: no token for
\* the comment, the line counter incremented exactly once, from its initial
\* 0 to 1, and the numeric token's line is 1: lines are counted from 0.
C9_CommentThenOneOnLineOne ==
    (Returned /\ source = CommentSample) =>
        /\ results[1] =
               << [type |-> "number", kind |-> "decimal",
                   literal |-> Integer(1), lexeme |-> <<"1">>,
                   line |-> InitialLine + 1],
                  eofToken(InitialLine + 1) >>
        /\ line = InitialLine + 1
        /\ diagnostics = <<>>

C9_Witness == pc = "returned" /\ source = CommentSample

\* C10: a - right before a second - consumes every character up to, not
\* including, the next line terminator (or up to the end of the input) and
\* emits no token; the line terminator is scanned next and then increments
\* the line counter; a - that no - follows emits one minus token, of lexeme -.
C10_CommentOrMinus ==
    \A i \in 1..Len(spans) :
        LET from == spans[i].from
        IN  charAt(from) = "-" =>
                IF charAt(from + 1) = "-"
                THEN /\ spans[i].kind = "comment"
                     /\ spans[i].to = EndOfLine(from + 2)
                     /\ spans[i].tokens = TokensBefore(i)
                     /\ spans[i].diagnostics = DiagnosticsBefore(i)
                     /\ spans[i].line = LineBefore(i)
                     /\ i < Len(spans) =>
                            /\ spans[i + 1].kind = "newline"
                            /\ spans[i + 1].from = spans[i].to
                            /\ spans[i + 1].to = spans[i].to + 1
                            /\ spans[i + 1].line = spans[i].line + 1
                ELSE /\ spans[i].kind = "token"
                     /\ spans[i].to = from + 1
                     /\ spans[i].tokens = TokensBefore(i) + 1
                     /\ TokenOf(i) = [type |-> "minus", lexeme |-> <<"-">>,
                                      line |-> spans[i].line]

\* a comment with a body has been skipped, its line terminator scanned and
\* the scan has returned
C10_Witness ==
    /\ pc = "returned"
    /\ \E i \in 1..(Len(spans) - 1) :
           /\ spans[i].kind = "comment"
           /\ spans[i].to > spans[i].from + 2
           /\ spans[i + 1].kind = "newline"


\* C11: for each of ! = < >: if the next character is =, exactly one token of
\* the two-character kind, with a two-character lexeme, is emitted and both
\* characters are consumed; otherwise exactly one token of the one-character
\* kind is emitted and the next character is left.  So === yields
\* equalEqual, then equal.
C11_OneOrTwoCharacterOperator ==
    /\ \A i \in 1..Len(spans) :
           LET from    == spans[i].from
               matched == charAt(from + 1) = "="
               to      == IF matched THEN from + 2 ELSE from + 1
           IN  charAt(from) \in OperatorCharacters =>
                   /\ spans[i].kind = "token"
                   /\ spans[i].to = to
                   /\ spans[i].tokens = TokensBefore(i) + 1
                   /\ spans[i].diagnostics = DiagnosticsBefore(i)
                   /\ TokenOf(i) =
                          [type |-> CASE charAt(from) = "!" ->
                                           IF matched THEN "bangEqual"
                                           ELSE "bang"
                                      [] charAt(from) = "=" ->
                                           IF matched THEN "equalEqual"
                                           ELSE "equal"
                                      [] charAt(from) = "<" ->
                                           IF matched THEN "lessEqual"
                                           ELSE "less"
                                      [] charAt(from) = ">" ->
                                           IF matched THEN "greaterEqual"
                                           ELSE "greater",
                           lexeme |-> SubSeq(source, from + 1, to),
                           line |-> spans[i].line]
    /\ (Returned /\ source = <<"=", "=", "=">>) =>
           results[1] =
               << [type |-> "equalEqual", lexeme |-> <<"=", "=">>,
                   line |-> InitialLine],
                  [type |-> "equal", lexeme |-> <<"=">>,
                   line |-> InitialLine],
                  eofToken(InitialLine) >>

\* === has been scanned
C11_Witness == pc = "returned" /\ source = <<"=", "=", "=">>


\* the end of the run of decimal digits that begins a literal at from
IntegerEnd(from) == EndOfDigits(from + 1, 10)

\* C12: a . after the digits that begin a decimal literal is consumed into
\* the literal if and only if a decimal digit follows it at once; a . that
\* no digit follows is left: the numeric token's lexeme ends before it and
\* the next token emitted is a dot token of lexeme "." .
C12_PointNeedsDigit ==
    \A i \in 1..Len(spans) :
        LET from  == spans[i].from
            point == IntegerEnd(from)
        IN  (isDigit(charAt(from)) /\ charAt(point) = ".") =>
                /\ spans[i].kind = "token"
                /\ TokenOf(i).type = "number"
                /\ IF isDigit(charAt(point + 1))
                   THEN /\ spans[i].to >= EndOfDigits(point + 1, 10)
                        /\ TokenOf(i).lexeme[point - from + 1] = "."
                   ELSE /\ spans[i].to = point
                        /\ TokenOf(i).lexeme =
                               SubSeq(source, from + 1, point)
                        /\ i < Len(spans) =>
                               /\ spans[i + 1].from = point
                               /\ spans[i + 1].to = point + 1
                               /\ spans[i + 1].kind = "token"
                               /\ spans[i + 1].tokens = spans[i].tokens + 1
                               /\ TokenOf(i + 1) =
                                      [type |-> "dot", lexeme |-> <<".">>,
                                       line |-> spans[i].line]

\* digits and a . that no digit follows have been scanned, the . as a dot
C12_Witness ==
    \E i \in 1..(Len(spans) - 1) :
        /\ isDigit(charAt(spans[i].from))
        /\ charAt(IntegerEnd(spans[i].from)) = "."
        /\ spans[i].to = IntegerEnd(spans[i].from)
        /\ TokenOf(i + 1).type = "dot"


\* the end of the digits and fraction of a decimal literal that begins at from
MantissaEnd(from) ==
    LET point == IntegerEnd(from)
    IN  IF charAt(point) = "." /\ isDigit(charAt(point + 1))
        THEN EndOfDigits(point + 1, 10) ELSE point

\* the literals number() scans: those that begin with a digit, but not 0b
DecimalLiteralAt(from) ==
    /\ isDigit(charAt(from))
    /\ ~(charAt(from) = "0" /\ toLowerCase(charAt(from + 1)) = "b")

ExponentSample == <<"1", ".", "5", "e", "-", "3">>

\* C13: an e or E after the digits of a decimal literal is consumed into the
\* literal if and only if a decimal digit follows it at once, or a - and
\* then a decimal digit; otherwise the e is left for the next scan step.  The
\* token is tagged exponential exactly when an exponent marker was consumed,
\* decimal otherwise, and its lexeme is the whole literal; "1.5e-3" yields
\* one exponential token of lexeme "1.5e-3".
C13_ExponentNeedsDigits ==
    /\ \A i \in 1..Len(spans) :
           LET from     == spans[i].from
               marker   == MantissaEnd(from)
               isMarker == toLowerCase(charAt(marker)) = "e"
               digit    == isDigit(charAt(marker + 1))
               minus    == /\ charAt(marker + 1) = "-"
                           /\ isDigit(charAt(marker + 2))
               consumed == isMarker /\ (digit \/ minus)
               to       == IF ~consumed THEN marker
                           ELSE IF digit THEN EndOfDigits(marker + 1, 10)
                           ELSE EndOfDigits(marker + 2, 10)
           IN  DecimalLiteralAt(from) =>
                   /\ spans[i].kind = "token"
                   /\ spans[i].to = to
                   /\ TokenOf(i).type = "number"
                   /\ TokenOf(i).kind =
                          IF consumed THEN "exponential" ELSE "decimal"
                   /\ TokenOf(i).lexeme = SubSeq(source, from + 1, to)
                   /\ (isMarker /\ ~consumed /\ i < Len(spans)) =>
                          spans[i + 1].from = marker
    /\ (Returned /\ source = ExponentSample) =>
           /\ Len(results[1]) = 2
           /\ results[1][1].type = "number"
           /\ results[1][1].kind = "exponential"
           /\ results[1][1].lexeme = ExponentSample

\* 1.5e-3 has been scanned
C13_Witness == pc = "returned" /\ source = ExponentSample


\* the line terminators among source[from..to)
NewlinesBetween(from, to) ==
    Cardinality({j \in from..(to - 1) : charAt(j) = "\n"})

UnterminatedAt(from) ==
    /\ charAt(from) = "\""
    /\ \A j \in (from + 1)..(Len(source) - 1) : charAt(j) # "\""

\* C14: a " is opened and the input ends before a closing ": exactly one
\* error is reported, no string token is emitted for it, the rest of the
\* input is consumed, the line counter incremented once for each line
\* terminator in it, and the scan still returns a sequence that ends with eof.
C14_UnterminatedString ==
    /\ \A i \in 1..Len(spans) :
           UnterminatedAt(spans[i].from) =>
               /\ spans[i].kind = "error"
               /\ spans[i].to = Len(source)
               /\ spans[i].tokens = TokensBefore(i)
               /\ spans[i].diagnostics = DiagnosticsBefore(i) + 1
               /\ diagnostics[spans[i].diagnostics] =
                      <<"Unterminated string literal.">>
               /\ spans[i].line =
                      LineBefore(i)
                      + NewlinesBetween(spans[i].from, Len(source))
               /\ i = Len(spans)
    /\ (pc = "loop" /\ spans # <<>>
        /\ UnterminatedAt(spans[Len(spans)].from)) => reachedEOF(current)
    /\ (Returned /\ spans # <<>>
        /\ UnterminatedAt(spans[Len(spans)].from)) =>
           LET r == results[1]
           IN  /\ r[Len(r)] = eofToken(spans[Len(spans)].line)
               /\ Len(r) = TokensBefore(Len(spans)) + 1

\* an unterminated string with a line terminator in it has been scanned and
\* the scan has returned
C14_Witness ==
    /\ pc = "returned"
    /\ spans # <<>>
    /\ UnterminatedAt(spans[Len(spans)].from)
    /\ NewlinesBetween(spans[Len(spans)].from, Len(source)) >= 1


\* the characters that start a token or are skipped: punctuation, operators,
\* white space, digits and the quote
StartCharacters ==
    {"(", ")", "{", "}", ",", ".", ";", "-", "+", "*", "/", "!", "=", "<",
     ">", " ", "\r", "\t", "\n", "\"",
     "0", "1", "2", "3", "4", "5", "6", "7", "8", "9"}

StrayCalls == {i \in 1..Len(spans) : charAt(spans[i].from) \notin StartCharacters}

\* C15: a character that starts no token causes exactly one diagnostic,
\* consumes that one character, emits no token and leaves the line counter
\* as it was; the scan goes on with the next character, so one scan can
\* report several errors and still return a sequence that ends with eof.
C15_StrayCharacter ==
    /\ \A i \in StrayCalls :
           /\ spans[i].kind = "error"
           /\ spans[i].to = spans[i].from + 1
           /\ spans[i].tokens = TokensBefore(i)
           /\ spans[i].diagnostics = DiagnosticsBefore(i) + 1
           /\ diagnostics[spans[i].diagnostics] =
                  <<"Unexpected character", charAt(spans[i].from)>>
           /\ spans[i].line = LineBefore(i)
    /\ Len(diagnostics) >= Cardinality(StrayCalls)
    /\ Returned => results[1][Len(results[1])].type = "eof"

\* a scan that met two stray characters and emitted a token has returned
C15_Witness ==
    /\ pc = "returned"
    /\ Cardinality(StrayCalls) >= 2
    /\ TokenSpans # {}


\* C19: in every state of a scan, 0 <= start <= current <= the length of the
\* source; current never decreases, every scanToken call increases it by at
\* least one, and no character is consumed past the end of the source, so
\* every token but eof has a lexeme that is not empty.
C19_CursorStaysInside ==
    /\ [](/\ 0 <= start /\ start <= current /\ current <= Len(source)
          /\ \A i \in 1..Len(spans) :
                 /\ spans[i].to >= spans[i].from + 1
                 /\ spans[i].to <= Len(source)
          /\ \A k \in 1..Len(tokens) :
                 tokens[k].type # "eof" =>
                     /\ Len(tokens[k].lexeme) >= 1
                     /\ \E a \in 0..(Len(source) - 1) :
                            tokens[k].lexeme =
                                SubSeq(source, a + 1,
                                       a + Len(tokens[k].lexeme)))
    /\ [][/\ current' >= current
          /\ (pc = "loop" /\ pc' # "returned") => current' >= current + 1
         ]_vars

\* a scan whose last step moved the cursor by two (e and -) is at the end
C19_Witness ==
    /\ pc = "exponentDigits"
    /\ current = Len(source) - 1
    /\ charAt(current - 1) = "-"
    /\ start < current - 2

StringSample == <<"\"", "a", "\n", "b", "\"", "\n", "1">>

\* C20: at every iteration of the scan loop, and at return, the line counter
\* is the number of line terminators among the characters consumed so far,
\* source[0..current), however they were consumed: as white space, in a
\* terminated string or in an unterminated one.  So the eof token's line is
\* the number of line terminators of the source, and the tokens' lines never
\* decrease along the sequence.
C20_LineCountsTerminators ==
    /\ pc \in {"loop", "returned"} =>
           line = InitialLine + NewlinesBefore(current)
    /\ \A i \in 1..Len(spans) :
           spans[i].line = InitialLine + NewlinesBefore(spans[i].to)
    /\ Returned =>
           results[1][Len(results[1])].line =
               InitialLine + NewlinesBefore(Len(source))
    /\ \A k \in 1..(Len(tokens) - 1) : tokens[k].line <= tokens[k + 1].line

\* a scan with a line terminator in a string and one outside has returned
C20_Witness ==
    /\ pc = "returned"
    /\ source = StringSample
    /\ line = InitialLine + 2


---------------------------------------------------------------------------
(* The second scanner: class Tokenizer of src/src/Token.ts, the one with   *)
(* block comments, radix markers o and x and the n suffix.  It has the     *)
(* same fields; its definitions carry the name of its file.                *)

\* how far past the end of the source the cursor is followed
MaxOverrun == 2

Token_Alphabet == {"{", "-", "}", "\n", "a", "1", "+"}

RECURSIVE Token_StringsUpTo(_)
Token_StringsUpTo(n) ==
    IF n = 0 THEN {<<>>}
    ELSE LET shorter == Token_StringsUpTo(n - 1)
         IN  shorter \cup {Append(s, c) : s \in shorter, c \in Token_Alphabet}

Token_Samples ==
    { <<"{", "-", "-", "-", "}", "1">>,
      <<"{", "-", "a", "\n", "a", "-", "}", "1">>,
      <<"-", "-", " ", "a", "\n", "1">>,
      <<"(", ")", "<", "=", ">", ",", ".", ";", "=", "=", "!", "*", "/">>,
      <<"\t", "\r", " ", "\"", "a", "\n", "\"", "\"", "a">>,
      <<"0", "x", "1", "A">>,
      <<"0", "b", "1", "0", " ", "0", "o", "7", "n", "1">>,
      <<"0", "b", "2">>,
      <<"0", "o", "8", " ", "0", "x", "g">>,
      <<"0", "x", "n">>,
      <<"1", "2", ".", "3", "4", "5", " ", "7">>,
      <<"1", "e", "2", "3", " ", "1", "e", "-", "2", "3">>,
      <<"1", "2", "n", "3">>,
      <<"1", ".", "n", "1">>,
      <<"0", "1">> }

Token_Sources == Token_StringsUpTo(MaxLen + 1) \cup Token_Samples

Token_reachedEOF(cur) == cur > Len(source) - 1

Token_advance(cur, advanceBy) == cur + advanceBy

Token_peek(cur) == IF Token_reachedEOF(cur) THEN "" ELSE charAt(cur)

Token_peekNext(cur, peekBy) ==
    IF cur + 1 >= Len(source) THEN "" ELSE charAt(cur + peekBy)

\* match(expected, lowercase): what it returns, and the cursor after it
Token_match(cur, expected, lowercase) ==
    IF Token_reachedEOF(cur) THEN FALSE
    ELSE IF ~lowercase /\ charAt(cur) # expected THEN FALSE
    ELSE IF lowercase /\ toLowerCase(charAt(cur)) # expected THEN FALSE
    ELSE TRUE

Token_afterMatch(cur, expected, lowercase) ==
    IF Token_match(cur, expected, lowercase) THEN cur + 1 ELSE cur

Token_addToken(tokenMetadata, st, cur, ln) ==
    Append(tokens, tokenMetadata @@ [lexeme |-> slice(st, cur), line |-> ln])

Token_isDigit(character) == character \in DecimalDigits

Token_isBinaryDigit(character) == character = "0" \/ character = "1"

Token_isOctalDigit(character) ==
    character \in {"0", "1", "2", "3", "4", "5", "6", "7"}

Token_isHexadecimalDigit(character) ==
    character # "" /\ DigitValue(character) < 16

Token_Init ==
    /\ source \in Token_Sources
    /\ tokens = <<>>
    /\ start = 0
    /\ current = 0
    /\ line = 0
    /\ pc = "idle"
    /\ diagnostics = <<>>
    /\ calls = 0
    /\ results = <<>>
    /\ spans = <<>>

Token_scanTokens ==
    /\ pc \in {"idle", "returned"}
    /\ calls < MaxCalls
    /\ pc' = "loop"
    /\ calls' = calls + 1
    /\ UNCHANGED <<source, tokens, start, current, line, diagnostics,
                   results, spans>>

Token_scanTokensReturn ==
    /\ pc = "loop"
    /\ Token_reachedEOF(current)
    /\ tokens' = Append(tokens,
                        [type |-> "eof", lexeme |-> <<>>, line |-> line])
    /\ results' = Append(results, tokens')
    /\ pc' = "returned"
    /\ UNCHANGED <<source, start, current, line, diagnostics, calls, spans>>

Token_inLoop == pc = "loop" /\ ~Token_reachedEOF(current)

\* const character = this.advance()
Token_scanned == charAt(Token_advance(current, 1) - 1)

\* case "(": case ")": and case "}":
Token_scanBracket ==
    /\ Token_inLoop
    /\ Token_scanned \in {"(", ")", "}"}
    /\ LET cur == Token_advance(current, 1)
       IN  Step(current, cur, line,
                Token_addToken([type |-> "bracket"], current, cur, line),
                diagnostics, "loop", "token")

\* case "{": a block comment if - follows, else it falls into case "}"
Token_scanBrace ==
    /\ Token_inLoop
    /\ Token_scanned = "{"
    /\ LET cur == Token_advance(current, 1)
       IN  IF Token_match(cur, "-", FALSE)
           THEN Step(current, Token_afterMatch(cur, "-", FALSE), line,
                     tokens, diagnostics, "blockComment", "")
           ELSE Step(current, cur, line,
                     Token_addToken([type |-> "bracket"], current, cur, line),
                     diagnostics, "loop", "token")

\* the loop's test, while (!this.match("-") || this.peek() !== "}"): match
\* consumes the - it finds; the test holds, and the body advances
Token_blockCommentGoesOn ==
    \/ ~Token_match(current, "-", FALSE)
    \/ Token_peek(Token_afterMatch(current, "-", FALSE)) # "}"

\* one iteration; nothing in the loop looks for the end of the source, and
\* the model follows the cursor MaxOverrun characters past it
Token_blockCommentAdvance ==
    /\ pc = "blockComment"
    /\ Token_blockCommentGoesOn
    /\ current < Len(source) + MaxOverrun
    /\ Step(start, Token_advance(Token_afterMatch(current, "-", FALSE), 1),
            line, tokens, diagnostics, "blockComment", "")

\* the test fails at -}: the - is consumed by match, the } by advance
Token_blockCommentEnd ==
    /\ pc = "blockComment"
    /\ ~Token_blockCommentGoesOn
    /\ Step(start, Token_advance(Token_afterMatch(current, "-", FALSE), 1),
            line, tokens, diagnostics, "loop", "comment")

\* case "<": case ">":
Token_scanAngle ==
    /\ Token_inLoop
    /\ Token_scanned \in {"<", ">"}
    /\ LET cur     == Token_advance(current, 1)
           matched == Token_match(cur, "=", FALSE)
           after   == Token_afterMatch(cur, "=", FALSE)
       IN  Step(current, after, line,
                Token_addToken(
                    [type |-> IF matched THEN "operator" ELSE "bracket"],
                    current, after, line),
                diagnostics, "loop", "token")

\* case ",": case ".": case ";":
Token_scanPunctuation ==
    /\ Token_inLoop
    /\ Token_scanned \in {",", ".", ";"}
    /\ LET cur == Token_advance(current, 1)
       IN  Step(current, cur, line,
                Token_addToken([type |-> "punctuation"], current, cur, line),
                diagnostics, "loop", "token")

\* case "-": the comment loop if a second - follows; the case has no break
\* and falls through the cases + * / ! into the addToken of case "="
Token_scanMinus ==
    /\ Token_inLoop
    /\ Token_scanned = "-"
    /\ LET cur == Token_advance(current, 1)
       IN  IF Token_match(cur, "-", FALSE)
           THEN Step(current, Token_afterMatch(cur, "-", FALSE), line,
                     tokens, diagnostics, "lineComment", "")
           ELSE Step(current, cur, line,
                     Token_addToken([type |-> "operator"], current, cur, line),
                     diagnostics, "loop", "token")

Token_lineCommentAdvance ==
    /\ pc = "lineComment"
    /\ Token_peek(current) # "\n" /\ ~Token_reachedEOF(current)
    /\ Step(start, Token_advance(current, 1), line, tokens, diagnostics,
            "lineComment", "")

\* the loop is left, and control falls through to the addToken of case "="
Token_lineCommentEnd ==
    /\ pc = "lineComment"
    /\ ~(Token_peek(current) # "\n" /\ ~Token_reachedEOF(current))
    /\ Step(start, current, line,
            Token_addToken([type |-> "operator"], start, current, line),
            diagnostics, "loop", "token")

\* case "+": case "*": case "/": case "!": case "=":
Token_scanOperator ==
    /\ Token_inLoop
    /\ Token_scanned \in {"+", "*", "/", "!", "="}
    /\ LET cur == Token_advance(current, 1)
       IN  Step(current, cur, line,
                Token_addToken([type |-> "operator"], current, cur, line),
                diagnostics, "loop", "token")

Token_scanBlank ==
    /\ Token_inLoop
    /\ Token_scanned \in {" ", "\r", "\t"}
    /\ Step(current, Token_advance(current, 1), line, tokens, diagnostics,
            "loop", "blank")

Token_scanNewline ==
    /\ Token_inLoop
    /\ Token_scanned = "\n"
    /\ Step(current, Token_advance(current, 1), line + 1, tokens,
            diagnostics, "loop", "newline")

Token_scanZero ==
    /\ Token_inLoop
    /\ Token_scanned = "0"
    /\ Step(current, Token_advance(current, 1), line, tokens, diagnostics,
            "leadingZeroNumber", "")

Token_scanDigit ==
    /\ Token_inLoop
    /\ Token_scanned \in NonZeroDigits
    /\ Step(current, Token_advance(current, 1), line, tokens, diagnostics,
            "number", "")

Token_scanQuote ==
    /\ Token_inLoop
    /\ Token_scanned = "\""
    /\ Step(current, Token_advance(current, 1), line, tokens, diagnostics,
            "string", "")

Token_CaseCharacters ==
    {"(", ")", "{", "}", "<", ">", ",", ".", ";", "-", "+", "*", "/", "!",
     "=", " ", "\r", "\t", "\n", "\""} \cup DecimalDigits

Token_scanDefault ==
    /\ Token_inLoop
    /\ Token_scanned \notin Token_CaseCharacters
    /\ Step(current, Token_advance(current, 1), line, tokens,
            Append(diagnostics, <<"Unexpected character", Token_scanned>>),
            "loop", "error")


\* BigInt(lexeme) of a lexeme that starts with a digit: a SyntaxError
\* unless it is decimal digits, or a radix marker and digits of the radix
Token_radixOf(lexeme) ==
    LET prefix == IF Len(lexeme) >= 2 /\ lexeme[1] = "0"
                  THEN toLowerCase(lexeme[2]) ELSE ""
    IN  CASE prefix = "b" -> 2 [] prefix = "o" -> 8 [] prefix = "x" -> 16
          [] OTHER -> 10

Token_BigIntThrows(lexeme) ==
    IF Token_radixOf(lexeme) = 10
    THEN ~AllDigits(lexeme, 10)
    ELSE Len(lexeme) = 2 \/ ~AllDigits(SubSeq(lexeme, 3, Len(lexeme)),
                                       Token_radixOf(lexeme))

Token_BigInt(lexeme) ==
    [bigint |-> IF Token_radixOf(lexeme) = 10
                THEN RadixValue(lexeme, 10)
                ELSE RadixValue(SubSeq(lexeme, 3, Len(lexeme)),
                                Token_radixOf(lexeme))]

\* this.readWhile(this.isDigit), one character
Token_numberDigit ==
    /\ pc = "number"
    /\ Token_isDigit(Token_peek(current))
    /\ Step(start, Token_advance(current, 1), line, tokens, diagnostics,
            "number", "")

\* if (this.match(".") && this.isDigit(this.peekNext())): match consumes
\* the point whatever follows it, and peekNext looks one past the cursor
Token_numberPoint ==
    /\ pc = "number"
    /\ ~Token_isDigit(Token_peek(current))
    /\ LET cur == Token_afterMatch(current, ".", FALSE)
       IN  IF /\ Token_match(current, ".", FALSE)
              /\ Token_isDigit(Token_peekNext(cur, 1))
           THEN Step(start, Token_advance(cur, 1), line, tokens, diagnostics,
                     "fraction", "")
           ELSE Step(start, cur, line, tokens, diagnostics, "exponent", "")

Token_fractionDigit ==
    /\ pc = "fraction"
    /\ Token_isDigit(Token_peek(current))
    /\ Step(start, Token_advance(current, 1), line, tokens, diagnostics,
            "fraction", "")

Token_fractionEnd ==
    /\ pc = "fraction"
    /\ ~Token_isDigit(Token_peek(current))
    /\ Step(start, current, line, tokens, diagnostics, "exponent", "")

\* if (this.match("e", true)) { ... }
Token_numberExponent ==
    /\ pc = "exponent"
    /\ LET cur == Token_afterMatch(current, "e", TRUE)
       IN  IF ~Token_match(current, "e", TRUE)
           THEN Step(start, cur, line, tokens, diagnostics, "numberToken", "")
           ELSE IF Token_isDigit(Token_peekNext(cur, 1))
           THEN Step(start, Token_advance(cur, 1), line, tokens, diagnostics,
                     "exponentDigits", "")
           ELSE IF /\ Token_peekNext(cur, 1) = "-"
                   /\ Token_isDigit(Token_peekNext(cur, 2))
           THEN Step(start, Token_advance(cur, 2), line, tokens, diagnostics,
                     "exponentDigits", "")
           ELSE Step(start, cur, line, tokens, diagnostics, "numberToken", "")

Token_exponentDigit ==
    /\ pc = "exponentDigits"
    /\ Token_isDigit(Token_peek(current))
    /\ Step(start, Token_advance(current, 1), line, tokens, diagnostics,
            "exponentDigits", "")

Token_exponentEnd ==
    /\ pc = "exponentDigits"
    /\ ~Token_isDigit(Token_peek(current))
    /\ Step(start, current, line, tokens, diagnostics, "numberToken", "")

\* the lexeme is taken, then const bigInt = this.match("n") and
\* if (bigInt) this.advance(); BigInt(lexeme) may throw out of scanTokens
Token_numberToken ==
    /\ pc = "numberToken"
    /\ LET lexeme == slice(start, current)
           bigInt == Token_match(current, "n", FALSE)
           cur    == IF bigInt
                     THEN Token_advance(
                              Token_afterMatch(current, "n", FALSE), 1)
                     ELSE current
           kind   == IF includesE(lexeme) THEN "exponential" ELSE "decimal"
       IN  IF bigInt /\ Token_BigIntThrows(lexeme)
           THEN Step(start, cur, line, tokens, diagnostics, "thrown", "")
           ELSE IF bigInt
           THEN Step(start, cur, line,
                     Token_addToken(
                         [type |-> "number", literal |-> Token_BigInt(lexeme),
                          kind |-> "decimal", bigInt |-> TRUE],
                         start, cur, line),
                     diagnostics, "loop", "token")
           ELSE Step(start, cur, line,
                     Token_addToken(
                         [type |-> "number", literal |-> Number(lexeme),
                          kind |-> kind, bigInt |-> FALSE],
                         start, cur, line),
                     diagnostics, "loop", "token")

\* the marker b, o or x in either case, then a digit of the radix one past
\* the cursor; without a marker, return this.number()
Token_leadingZeroNumber ==
    /\ pc = "leadingZeroNumber"
    /\ LET cur == Token_advance(current, 1)
       IN  IF Token_match(current, "b", TRUE)
           THEN IF Token_isBinaryDigit(Token_peekNext(cur, 1))
                THEN Step(start, Token_advance(cur, 1), line, tokens,
                          diagnostics, "binaryDigits", "")
                ELSE Step(start, cur, line, tokens,
                          Append(diagnostics, <<"Binary digit expected">>),
                          "radixToken", "")
           ELSE IF Token_match(current, "o", TRUE)
           THEN IF Token_isOctalDigit(Token_peekNext(cur, 1))
                THEN Step(start, Token_advance(cur, 1), line, tokens,
                          diagnostics, "octalDigits", "")
                ELSE Step(start, cur, line, tokens,
                          Append(diagnostics, <<"Octal digit expected">>),
                          "radixToken", "")
           ELSE IF Token_match(current, "x", TRUE)
           THEN IF Token_isHexadecimalDigit(Token_peekNext(cur, 1))
                THEN Step(start, Token_advance(cur, 1), line, tokens,
                          diagnostics, "hexadecimalDigits", "")
                ELSE Step(start, cur, line, tokens,
                          Append(diagnostics,
                                 <<"Hexadecimal digit expected">>),
                          "radixToken", "")
           ELSE Step(start, current, line, tokens, diagnostics, "number", "")

\* the predicate handed to readWhile after each marker
Token_radixPredicate(character) ==
    CASE pc = "binaryDigits" -> Token_isBinaryDigit(character)
      [] pc = "octalDigits"  -> Token_isOctalDigit(character)
      [] OTHER               -> Token_isHexadecimalDigit(character)

Token_RadixLoops == {"binaryDigits", "octalDigits", "hexadecimalDigits"}

Token_radixDigit ==
    /\ pc \in Token_RadixLoops
    /\ Token_radixPredicate(Token_peek(current))
    /\ Step(start, Token_advance(current, 1), line, tokens, diagnostics,
            pc, "")

Token_radixEnd ==
    /\ pc \in Token_RadixLoops
    /\ ~Token_radixPredicate(Token_peek(current))
    /\ Step(start, current, line, tokens, diagnostics, "radixToken", "")

Token_radixToken ==
    /\ pc = "radixToken"
    /\ LET lexeme == slice(start, current)
           bigInt == Token_match(current, "n", FALSE)
           cur    == IF bigInt
                     THEN Token_advance(
                              Token_afterMatch(current, "n", FALSE), 1)
                     ELSE current
           secondChar == toLowerCase(lexeme[2])
           kind   == IF secondChar = "b" THEN "binary"
                     ELSE IF secondChar = "o" THEN "octal"
                     ELSE "hexadecimal"
       IN  IF bigInt /\ Token_BigIntThrows(lexeme)
           THEN Step(start, cur, line, tokens, diagnostics, "thrown", "")
           ELSE Step(start, cur, line,
                     Token_addToken(
                         [type |-> "number",
                          literal |-> IF bigInt THEN Token_BigInt(lexeme)
                                      ELSE Number(lexeme),
                          kind |-> kind, bigInt |-> bigInt],
                         start, cur, line),
                     diagnostics, "loop", "token")

Token_stringCharacter ==
    /\ pc = "string"
    /\ Token_peek(current) # "\"" /\ ~Token_reachedEOF(current)
    /\ Step(start, Token_advance(current, 1),
            IF Token_peek(current) = "\n" THEN line + 1 ELSE line,
            tokens, diagnostics, "string", "")

Token_stringEnd ==
    /\ pc = "string"
    /\ ~(Token_peek(current) # "\"" /\ ~Token_reachedEOF(current))
    /\ IF Token_reachedEOF(current)
       THEN Step(start, current, line, tokens,
                 Append(diagnostics, <<"Unterminated string literal.">>),
                 "loop", "error")
       ELSE LET cur     == Token_advance(current, 1)
                literal == slice(start + 1, cur - 1)
            IN  Step(start, cur, line,
                     Token_addToken([type |-> "string", literal |-> literal],
                                    start, cur, line),
                     diagnostics, "loop", "token")

\* one iteration of the loop of scanTokens and of the loops under it
Token_Run ==
    \/ Token_scanTokensReturn
    \/ Token_scanBracket
    \/ Token_scanBrace
    \/ Token_blockCommentAdvance
    \/ Token_blockCommentEnd
    \/ Token_scanAngle
    \/ Token_scanPunctuation
    \/ Token_scanMinus
    \/ Token_lineCommentAdvance
    \/ Token_lineCommentEnd
    \/ Token_scanOperator
    \/ Token_scanBlank
    \/ Token_scanNewline
    \/ Token_scanZero
    \/ Token_scanDigit
    \/ Token_scanQuote
    \/ Token_scanDefault
    \/ Token_numberDigit
    \/ Token_numberPoint
    \/ Token_fractionDigit
    \/ Token_fractionEnd
    \/ Token_numberExponent
    \/ Token_exponentDigit
    \/ Token_exponentEnd
    \/ Token_numberToken
    \/ Token_leadingZeroNumber
    \/ Token_radixDigit
    \/ Token_radixEnd
    \/ Token_radixToken
    \/ Token_stringCharacter
    \/ Token_stringEnd

Token_Next == Token_scanTokens \/ Token_Run

Token_Spec == Token_Init /\ [][Token_Next]_vars

Token_FairSpec == Token_Spec /\ WF_vars(Token_Run)


---------------------------------------------------------------------------
(* The claims about the scanner of src/src/Token.ts. *)

\* C16: scanTokens of the scanner of Token.ts terminates on every source,
\* also when a {- is never closed by -} or its body holds - characters: the
\* work is bounded by the length of the source, and the cursor never runs
\* past the end of the source.
C16_CursorNeverPastEnd == current <= Len(source)

\* the index of the - of the first -} at or after i, or the length
RECURSIVE FirstCloser(_)
FirstCloser(i) ==
    IF i >= Len(source) THEN Len(source)
    ELSE IF charAt(i) = "-" /\ charAt(i + 1) = "}" THEN i
    ELSE FirstCloser(i + 1)

BlockCommentAt(from) == charAt(from) = "{" /\ charAt(from + 1) = "-"

\* C17: a block comment opened by {- is closed by the first -} after it:
\* the scan does not read past that closer while it is inside the comment,
\* the call consumes through the closer and emits no token, the scan resumes
\* right after it, and the line counter is incremented once for each line
\* terminator inside the comment.
C17_ClosedByFirstCloser ==
    /\ (/\ pc = "blockComment"
        /\ FirstCloser(start + 2) < Len(source))
       => current <= FirstCloser(start + 2)
    /\ \A i \in 1..Len(spans) :
           LET from == spans[i].from
               to   == FirstCloser(from + 2) + 2
           IN  (BlockCommentAt(from) /\ FirstCloser(from + 2) < Len(source))
               => /\ spans[i].to = to
                  /\ spans[i].tokens = TokensBefore(i)
                  /\ spans[i].line =
                         LineBefore(i) + NewlinesBetween(from, to)

\* C18: a -- line comment emits no token: the call that began at -- consumes
\* up to, not including, the next line terminator or the end of the input,
\* and the token sequence is as long after it as before it.
C18_LineCommentEmitsNoToken ==
    \A i \in 1..Len(spans) :
        LET from == spans[i].from
        IN  (charAt(from) = "-" /\ charAt(from + 1) = "-")
            => /\ spans[i].to = EndOfLine(from)
               /\ spans[i].tokens = TokensBefore(i)

====
